---- MODULE Spec2Model ----
(***************************************************************************)
(* Scraping orchestration pipeline of kdapi (src/src/scraper.ts,           *)
(* src/src/cache.ts, src/src/cli.ts): merge/dedup engine, token-bucket     *)
(* rate limiter, retrying fetch, content cache, the production and debug   *)
(* session drivers and the dataset search.                                 *)
(*                                                                         *)
(* One module, several specifications over the same variables; each        *)
(* specification drives one component and leaves the others' variables     *)
(* untouched.                                                              *)
(*   SpecMerge    mergeProfiles applied repeatedly to one collection       *)
(*   SpecLimiter  concurrent callers of rateLimiter.getToken               *)
(*   SpecLimiterFair  the same, with the event loop's fairness             *)
(*   SpecFetch    one task calling parseProfileWithCache / fetchWithRetry  *)
(*   SpecCallFair one such call from any bucket level and cache content,   *)
(*                with the event loop's fairness                           *)
(*   SpecPipeline one such call next to another task's getToken call       *)
(*   SpecDiscovery  the listing page of a category resolved by sessions    *)
(*                run with any options                                     *)
(*   SpecSession  one production session: runProductionMode over the five  *)
(*                categories, with incremental saves                       *)
(*   SpecRun      the session started by the scrape command with any of    *)
(*                its options: runProductionMode or runDebugMode           *)
(*   SpecColdStart  a production session on a data directory of which a    *)
(*                data file is missing or unreadable                       *)
(*   SpecSearch   one call of search on an imported dataset                *)
(***************************************************************************)
EXTENDS Integers, Sequences, FiniteSets, TLC

\* ------------------------------------------------------------------ bounds
NumUrls == 2        \* distinct profile URLs the listing pages can name
MaxExisting == 2    \* length of the collection mergeProfiles starts from
MaxNew == 2         \* length of one newProfiles argument
MaxId == 3          \* ids uuidv4 hands out before the model stops extracting
NumPayloads == 2    \* distinct opaque payloads an extraction can produce

MaxScrapes == 2     \* parseProfileWithCache calls the fetching task makes
NumFetchKeys == 1   \* distinct (type, url) pairs the fetching task is asked for
NumCallers == 3     \* concurrent tasks calling rateLimiter.getToken
\* URLs of one batch of scrapeProfiles: CONFIG.concurrentRequests (5 in the
\* source), lowered so that NumUrls URLs make more than one batch
BatchSize == 1
NumWords == 3       \* distinct lower-cased words of names and queries
NumItems == 2       \* idols and groups in the dataset search looks through
MaxQueryWords == 2  \* words of a search query

\* ------------------------------------------------------- program constants
maxRequestsPerMinute == 30                      \* CONFIG.maxRequestsPerMinute
MsPerMinute == 60000                            \* divisor of refillRate
\* 1 / refillRate: milliseconds that refill one token
MsPerToken == MsPerMinute \div maxRequestsPerMinute
\* Token amounts are kept in units of 1/MsPerToken token, the amount one
\* millisecond refills: `tokens` holds rateLimiter.tokens * MsPerToken, so
\* timePassed * refillRate is timePassed units and one token is MsPerToken.
Capacity == maxRequestsPerMinute * MsPerToken

retryAttempts == 5                              \* CONFIG.retryAttempts
retryDelay == 2000                              \* CONFIG.retryDelay
MaxBackoff == 30000                             \* cap of the retry backoff

Urls == 1..NumUrls
Types == {"idol", "group"}
\* the (type, url) pairs of the fetching task's calls: one URL as an idol
\* page, the same URL as a group page, then the next URL
AllKeys == [k \in 1..(2 * NumUrls) |->
               <<IF k % 2 = 1 THEN "idol" ELSE "group", (k + 1) \div 2>>]
FetchKeys == {AllKeys[k] : k \in 1..NumFetchKeys}
\* no document: cache.get's null, a call that returned nothing
NoDoc == 0
\* Retry-After header values (seconds) the server sends; NoHint: no header
RetryAfterSeconds == {60}
NoHint == 0
Payloads == 1..NumPayloads

\* urlToId.get(url) of a URL the map does not hold (undefined, falsy)
NoId == 0

VARIABLES
    existing,       \* mergeProfiles: the `existing` argument of the last call
    newProfiles,    \* mergeProfiles: the `newProfiles` argument of the last call
    merged,         \* mergeProfiles: the collection the last call returned
    nextId,         \* the next id uuidv4() returns (ids are never reused)
    mergeCalls,     \* number of mergeProfiles calls made so far (0..2, saturating)
    tokens,         \* rateLimiter.tokens, in units of 1/MsPerToken token
    sinceRefill,    \* Date.now() - rateLimiter.lastRefill, in ms
    gtPc,           \* per caller of getToken: "idle", "waiting", "returned"
    gtWait,         \* per caller: ms left of its pending delay(waitTime)
    gtRounds,       \* per caller: delays it has gone through (0..2, saturating)
    cache,          \* CacheManager: [type, url] -> cached document or NoDoc
    failedRequests, \* URLs that have a record in the failedRequests map
    fPc,            \* fetching task: where it is in parseProfileWithCache
    fArgs,          \* fetching task: [url, type, forceRefresh] of its call
    attempt,        \* fetchWithRetry: the local `attempt`
    fWait,          \* fetching task: ms left of its pending delay
    fLog,           \* fetching task: the record of its current or last call
    fDelays,        \* fetching task: delays awaited since its last response
    fCalls,         \* fetching task: calls it has finished
    dataset,        \* runProductionMode: the in-memory `dataset`
    groupsFile,     \* content of PATHS.GROUPS_FILE
    idolsFile,      \* content of PATHS.IDOLS_FILE
    metadataFile,   \* content of PATHS.METADATA_FILE (its stats)
    fileState,      \* per data file: "ok", "missing" or "unreadable"
    saved,          \* the argument of the last saveDataset call
    sPc,            \* session: where runProductionMode is
    cat,            \* session: index of the category being processed
    newUrls,        \* scrapeProfiles: the local `newUrls`
    batchStart,     \* scrapeProfiles: the loop variable `i`
    results,        \* scrapeProfiles: the local `results`
    opts,           \* the options the scrape command passes to runProductionMode
    tasks,          \* scrapeProfiles: per URL of the batch, its promise
    sLog,           \* session: the record of the category being processed
    searchData,     \* search: the items of the dataset the module imported
    searchArgs,     \* search: [query, type, limit] of the call, and whether it returned
    searchResults   \* search: what the last call returned

mergeVars == <<existing, newProfiles, merged, nextId, mergeCalls>>

limiterVars == <<tokens, sinceRefill, gtPc, gtWait, gtRounds>>

fetchVars == <<cache, failedRequests, fPc, fArgs, attempt, fWait, fLog, fDelays,
               fCalls>>

sessionVars == <<dataset, groupsFile, idolsFile, metadataFile, fileState,
                 saved, sPc, cat, newUrls,
                 batchStart, results, opts, tasks, sLog>>

searchVars == <<searchData, searchArgs, searchResults>>

vars == <<existing, newProfiles, merged, nextId, mergeCalls,
          tokens, sinceRefill, gtPc, gtWait, gtRounds,
          cache, failedRequests, fPc, fArgs, attempt, fWait, fLog, fDelays,
          fCalls,
          dataset, groupsFile, idolsFile, metadataFile, fileState,
          saved, sPc, cat, newUrls,
          batchStart, results, opts, tasks, sLog,
          searchData, searchArgs, searchResults>>

\* ------------------------------------------------------------ pure helpers
Min(a, b) == IF a < b THEN a ELSE b

Max(a, b) == IF a > b THEN a ELSE b

Range(s) == {s[i] : i \in 1..Len(s)}

\* all sequences over S of length 0..n
SeqsUpTo(S, n) == UNION {[1..k -> S] : k \in 0..n}

\* number of entries of collection s whose profileUrl is u
CountUrl(s, u) == Cardinality({i \in 1..Len(s) : s[i].profileUrl = u})

\* number of entries of collection s whose id is d
CountId(s, d) == Cardinality({i \in 1..Len(s) : s[i].id = d})

UniqueUrls(s) == \A i, j \in 1..Len(s) : s[i].profileUrl = s[j].profileUrl => i = j

UniqueIds(s) == \A i, j \in 1..Len(s) : s[i].id = s[j].id => i = j

\* -------------------------------------------------------- mergeProfiles
\* new Map(existing.map(p => [p.profileUrl, p.id])).get(url): a later entry
\* with the same key overrides an earlier one; undefined when absent.
UrlToIdGetNothing(coll, url) == NoId

UrlToIdGetFirst(coll, url) ==
    LET hits == {i \in 1..Len(coll) : coll[i].profileUrl = url}
    IN  IF hits = {} THEN NoId
        ELSE coll[CHOOSE i \in hits : \A j \in hits : i <= j].id

UrlToIdGet(coll, url) ==
    LET hits == {i \in 1..Len(coll) : coll[i].profileUrl = url}
    IN  IF hits = {} THEN NoId
        ELSE coll[CHOOSE i \in hits : \A j \in hits : j <= i].id

\* merged.findIndex(p => p.id === existingId): first match, 0 for -1
FindIndex(coll, id) ==
    LET hits == {i \in 1..Len(coll) : coll[i].id = id}
    IN  IF hits = {} THEN 0
        ELSE CHOOSE i \in hits : \A j \in hits : i <= j

\* merged[index] = { ...profile, id: existingId }
ReplacementDroppingId(profile, existingId) == profile

Replacement(profile, existingId) == [profile EXCEPT !.id = existingId]

\* the body of newProfiles.forEach: urlToId is built once from `existing`
\* and is not updated when a profile is pushed.
MergeOne(acc, base, profile) ==
    LET existingId == UrlToIdGet(base, profile.profileUrl)
    IN  IF existingId # NoId
        THEN LET index == FindIndex(acc, existingId)
             IN  IF index # 0
                 THEN [acc EXCEPT ![index] = Replacement(profile, existingId)]
                 ELSE acc
        ELSE Append(acc, profile)

RECURSIVE MergeFold(_, _, _, _)
MergeFold(acc, base, news, k) ==
    IF k > Len(news) THEN acc
    ELSE MergeFold(MergeOne(acc, base, news[k]), base, news, k + 1)

mergeProfiles(ex, news) == MergeFold(ex, ex, news, 1)

\* ------------------------------------------------- components at rest
\* the merge engine before any call, with an empty collection
MergeAtRest ==
    /\ existing = <<>>
    /\ newProfiles = <<>>
    /\ merged = <<>>
    /\ nextId = 1
    /\ mergeCalls = 0

Callers == 1..NumCallers

\* the limiter as constructed: a full bucket, lastRefill = Date.now()
LimiterAtRest ==
    /\ tokens = Capacity
    /\ sinceRefill = 0
    /\ gtPc = [c \in Callers |-> "idle"]
    /\ gtWait = [c \in Callers |-> 0]
    /\ gtRounds = [c \in Callers |-> 0]

NoCall == [url |-> 1, type |-> "idol", forceRefresh |-> FALSE]

\* what the model records of one parseProfileWithCache call: its outcome,
\* the network requests issued, the 429 responses received, whether the
\* cache read or the cache write failed, where the returned document came
\* from, the document, and the class of the response just received
NoLog == [outcome |-> "none", reqs |-> 0, n429 |-> 0, readErr |-> FALSE,
          stored |-> FALSE, from |-> "none", doc |-> NoDoc, last |-> "none"]

\* an empty cache directory, an empty failedRequests map, no call made
FetchAtRest ==
    /\ cache = [k \in FetchKeys |-> NoDoc]
    /\ failedRequests = {}
    /\ fPc = "idle"
    /\ fArgs = NoCall
    /\ attempt = 0
    /\ fWait = 0
    /\ fLog = NoLog
    /\ fDelays = <<>>
    /\ fCalls = 0

\* the DataSet runProductionMode and loadExistingData start from
EmptyDataset ==
    [femaleIdols |-> <<>>, maleIdols |-> <<>>, girlGroups |-> <<>>,
     boyGroups |-> <<>>, coedGroups |-> <<>>]

\* saveDataset, lines 301-305: what goes into PATHS.GROUPS_FILE
GroupsData(ds) ==
    [girlGroups |-> ds.girlGroups, boyGroups |-> ds.boyGroups,
     coedGroups |-> ds.coedGroups]

\* saveDataset, lines 310-313: what goes into PATHS.IDOLS_FILE
IdolsData(ds) == [femaleIdols |-> ds.femaleIdols, maleIdols |-> ds.maleIdols]

\* CONFIG.rateLimitDelay (line 49)
rateLimitDelay == 2000

\* cli.ts, lines 20-25: the values given to --debug, --batch-size, --delay
\* and --force, and the `options` runDebugMode and runProductionMode are
\* called with (lines 42-56); --cache cannot be switched off
BatchSizeOptions == {1, 2}

DelayOptions == {100, 2000}

Options ==
    [debug : BOOLEAN, batchSize : BatchSizeOptions,
     delayBetweenBatches : DelayOptions, useCache : {TRUE},
     forceRefresh : BOOLEAN]

\* the options of a plain `scrape`: --debug defaults to false, --batch-size
\* to CONFIG.concurrentRequests, --delay to 2000, --force to false
DefaultOptions ==
    [debug |-> FALSE, batchSize |-> BatchSize, delayBetweenBatches |-> 2000,
     useCache |-> TRUE, forceRefresh |-> FALSE]

\* cli.ts, line 21: the default of --sample, the number of links of a
\* listing a debug session keeps
SampleSize == 5

\* what the model records of the category being processed: the links its
\* listing held, the number of URLs scrapeProfiles set out to fetch, the
\* batches dispatched and the pauses awaited after them, the size of the
\* last batch and the length of the last pause, the forceRefresh argument
\* of the last parseProfileWithCache call, the URLs dispatched, the number
\* of tasks that resolved to null, whether a save threw; and of the
\* session: the pause awaited after the last category and the profile URLs
\* of the dataset loaded at the start
NoSessionLog ==
    [listing |-> <<>>, n |-> 0, chunks |-> 0, pauses |-> 0, batchLen |-> 0,
     pauseMs |-> 0, forced |-> FALSE, dispatched |-> <<>>, failed |-> 0,
     saveFailed |-> FALSE, catPauseMs |-> 0, loaded |-> {}]

\* saveDataset, lines 317-355: the stats that go into PATHS.METADATA_FILE
MetaData(ds) ==
    [groups |-> Len(ds.girlGroups) + Len(ds.boyGroups) + Len(ds.coedGroups),
     idols |-> Len(ds.femaleIdols) + Len(ds.maleIdols),
     total |-> Len(ds.femaleIdols) + Len(ds.maleIdols) + Len(ds.girlGroups)
                   + Len(ds.boyGroups) + Len(ds.coedGroups)]

\* both data files exist and parse
AllFilesOk == [groups |-> "ok", idols |-> "ok"]

\* no session running, data files holding an empty dataset
SessionAtRest ==
    /\ opts = DefaultOptions
    /\ tasks = <<>>
    /\ sLog = NoSessionLog
    /\ dataset = EmptyDataset
    /\ groupsFile = GroupsData(EmptyDataset)
    /\ idolsFile = IdolsData(EmptyDataset)
    /\ metadataFile = MetaData(EmptyDataset)
    /\ fileState = AllFilesOk
    /\ saved = EmptyDataset
    /\ sPc = "idle"
    /\ cat = 1
    /\ newUrls = <<>>
    /\ batchStart = 0
    /\ results = <<>>

\* search: no call made, an empty dataset imported
NoSearch == [query |-> <<>>, type |-> "all", limit |-> 0, returned |-> FALSE]

SearchAtRest ==
    /\ searchData = <<>>
    /\ searchArgs = NoSearch
    /\ searchResults = <<>>

\* ------------------------------------------------------------ rateLimiter
\* Math.min(CONFIG.maxRequestsPerMinute, this.tokens + timePassed * this.refillRate)
RefilledUncapped(t, timePassed) == t + timePassed

RefilledNothing(t, timePassed) == t

Refilled(t, timePassed) == Min(Capacity, t + timePassed)

\* the negation of `this.tokens < 1`
HasTokenAnyFraction(t) == t > 0

HasToken(t) == t >= MsPerToken

\* this.tokens -= 1
DebitedNothing(t) == t

Debited(t) == t - MsPerToken

\* (1 - this.tokens) / this.refillRate
waitTime(t) == MsPerToken - t

\* Date.now() - lastRefill after d more ms.  Refilled caps at Capacity, so an
\* interval longer than the one that fills an empty bucket refills the same
\* amount: the interval is kept up to that length.
Elapsed(since, d) == Min(since + d, Capacity)

\* the token levels a running session leaves in the bucket (whole and half
\* tokens), lastRefill being the time of the last getToken
TokenLevels == {k * (MsPerToken \div 2) : k \in 0..(2 * maxRequestsPerMinute)}

\* getToken at this instant debits a token (does not start a delay)
Granted == HasToken(Refilled(tokens, sinceRefill))

\* the synchronous part of getToken (lines 186-200), run to completion by
\* the event loop: refill, then either start delay(waitTime) or debit
GetTokenBody(c) ==
    LET refilled == Refilled(tokens, sinceRefill)
    IN  /\ sinceRefill' = 0
        /\ IF ~HasToken(refilled)
           THEN /\ tokens' = refilled
                /\ gtWait' = [gtWait EXCEPT ![c] = waitTime(refilled)]
           ELSE /\ tokens' = Debited(refilled)
                /\ UNCHANGED gtWait

\* a task calls rateLimiter.getToken()
GetToken(c) ==
    /\ gtPc[c] = "idle"
    /\ GetTokenBody(c)
    /\ gtPc' = [gtPc EXCEPT ![c] = IF Granted THEN "returned" ELSE "waiting"]
    /\ gtRounds' = [gtRounds EXCEPT ![c] = IF Granted THEN @ ELSE Min(@ + 1, 2)]
    /\ UNCHANGED <<mergeVars, sessionVars, fetchVars, searchVars>>

\* delay(waitTime) has elapsed: `return this.getToken()` re-evaluates
GetTokenAfterDelay(c) ==
    /\ gtPc[c] = "waiting"
    /\ gtWait[c] = 0
    /\ GetTokenBody(c)
    /\ gtPc' = [gtPc EXCEPT ![c] = IF Granted THEN "returned" ELSE "waiting"]
    /\ gtRounds' = [gtRounds EXCEPT ![c] = IF Granted THEN @ ELSE Min(@ + 1, 2)]
    /\ UNCHANGED <<mergeVars, sessionVars, fetchVars, searchVars>>

\* wall-clock time advances by d ms: every pending timer gets d ms closer
\* (a timer may fire later than it is due)
TimePasses(d) ==
    /\ sinceRefill' = Elapsed(sinceRefill, d)
    /\ gtWait' = [c \in Callers |-> Max(gtWait[c] - d, 0)]
    /\ fWait' = Max(fWait - d, 0)
    /\ \/ sinceRefill' # sinceRefill
       \/ gtWait' # gtWait
       \/ fWait' # fWait
    /\ UNCHANGED <<tokens, gtPc, gtRounds, mergeVars, sessionVars, searchVars>>
    /\ UNCHANGED <<cache, failedRequests, fPc, fArgs, attempt, fLog, fDelays,
                   fCalls>>

\* The clock is observed every token's refill time: time advances to
\* the first such instant at which the next pending timer is due (timers
\* fire on time or late, never early), or by a full bucket's refill time.
ClockGrain == MsPerToken

PendingTimers == ({fWait} \cup {gtWait[c] : c \in Callers}) \ {0}

NextTimer ==
    IF PendingTimers = {} THEN {}
    ELSE LET due == CHOOSE d \in PendingTimers : \A e \in PendingTimers : d <= e
         IN  {((due + ClockGrain - 1) \div ClockGrain) * ClockGrain}

TimerTick == \E d \in NextTimer \cup {Capacity} : TimePasses(d)

InitLimiter ==
    /\ tokens \in TokenLevels
    /\ sinceRefill = 0
    /\ gtPc = [c \in Callers |-> "idle"]
    /\ gtWait = [c \in Callers |-> 0]
    /\ gtRounds = [c \in Callers |-> 0]
    /\ MergeAtRest
    /\ FetchAtRest
    /\ SessionAtRest
    /\ SearchAtRest

NextLimiter ==
    \/ \E c \in Callers : GetToken(c)
    \/ \E c \in Callers : GetTokenAfterDelay(c)
    \/ TimerTick

SpecLimiter == InitLimiter /\ [][NextLimiter]_vars

\* timers that are due fire, tasks that are ready run, time advances
SpecLimiterFair ==
    /\ InitLimiter
    /\ [][NextLimiter]_vars
    /\ \A c \in Callers : WF_vars(GetToken(c))
    /\ \A c \in Callers : WF_vars(GetTokenAfterDelay(c))
    /\ WF_vars(TimerTick)

\* ------------------------------------------------ specification SpecMerge
\* Collections the program can hold: distinct URLs, distinct ids.
InitCollections ==
    {c \in SeqsUpTo([id : 1..MaxExisting, profileUrl : Urls, payload : Payloads],
                    MaxExisting) :
        /\ UniqueUrls(c)
        /\ \A i \in 1..Len(c) : c[i].id = i}

\* the records extraction produces for a list of (url, payload): every
\* record takes the next uuid
Extracted(shape, firstId) ==
    [i \in 1..Len(shape) |->
        [id |-> firstId + i - 1, profileUrl |-> shape[i][1], payload |-> shape[i][2]]]

InitMerge ==
    /\ existing \in InitCollections
    /\ newProfiles = <<>>
    /\ merged = existing
    /\ nextId = Len(existing) + 1
    /\ mergeCalls = 0
    /\ LimiterAtRest
    /\ FetchAtRest
    /\ SessionAtRest
    /\ SearchAtRest

\* merged = mergeProfiles(merged, fresh records)
MergeFresh ==
    \E shape \in SeqsUpTo(Urls \X Payloads, MaxNew) :
        /\ nextId + Len(shape) - 1 <= MaxId
        /\ existing' = merged
        /\ newProfiles' = Extracted(shape, nextId)
        /\ merged' = mergeProfiles(merged, Extracted(shape, nextId))
        /\ nextId' = nextId + Len(shape)
        /\ mergeCalls' = Min(mergeCalls + 1, 2)
        /\ UNCHANGED <<limiterVars, fetchVars, sessionVars, searchVars>>

\* the same newProfiles merged again into the result (cumulative re-merge
\* of a category's results, scrapeProfiles line 1603)
MergeAgain ==
    /\ mergeCalls >= 1
    /\ existing' = merged
    /\ merged' = mergeProfiles(merged, newProfiles)
    /\ mergeCalls' = 2
    /\ UNCHANGED <<newProfiles, nextId>>
    /\ UNCHANGED <<limiterVars, fetchVars, sessionVars, searchVars>>

NextMerge == MergeFresh \/ MergeAgain

SpecMerge == InitMerge /\ [][NextMerge]_vars

\* ------------------------------------------------------- fetchWithRetry
RECURSIVE Pow(_, _)
Pow(b, k) == IF k = 0 THEN 1 ELSE b * Pow(b, k - 1)

\* CONFIG.retryDelay * Math.pow(1.5, k), in the whole ms a timer counts
Exponential(k) == (retryDelay * Pow(3, k)) \div Pow(2, k)

\* line 212: Math.min(CONFIG.retryDelay * Math.pow(1.5, attempt), 30000)
backoff(a) == Min(Exponential(a), MaxBackoff)

\* line 239: retryAfter ? parseInt(retryAfter) * 1000
\*                       : CONFIG.retryDelay * Math.pow(1.5, attempt)
delay429(hint, a) == IF hint # NoHint THEN hint * 1000 ELSE Exponential(a)

\* line 237: attempt++ in the 429 branch
AttemptAfter429Uncounted(a) == a

AttemptAfter429(a) == a + 1

\* line 259: attempt++ in the catch block
AttemptAfterErrorUncounted(a) == a

AttemptAfterError(a) == a + 1

\* line 208: while (attempt < maxAttempts)
LoopEndsOneLater(a) == a > retryAttempts

LoopEnds(a) == a >= retryAttempts

\* line 216: `await rateLimiter.getToken()` stands before the fetch of
\* lines 222-232, which runs only once the promise of getToken has resolved
FetchFollowsUngranted(granted) == TRUE

FetchFollows(granted) == granted

\* `await rateLimiter.getToken()` (line 216) and, once it returns, the
\* fetch(url) of lines 222-232; the fetching task is caller 1 of the limiter
Acquire(log, delays) ==
    /\ GetTokenBody(1)
    /\ gtPc' = [gtPc EXCEPT ![1] = IF Granted THEN "idle" ELSE "waiting"]
    /\ UNCHANGED gtRounds
    /\ fPc' = IF FetchFollows(Granted) THEN "request" ELSE "tokenWait"
    /\ fLog' = IF FetchFollows(Granted)
               THEN [log EXCEPT !.reqs = @ + 1, !.last = "none"]
               ELSE [log EXCEPT !.last = "none"]
    /\ fDelays' = IF FetchFollows(Granted) THEN delays
                  ELSE Append(delays, <<"token", waitTime(Refilled(tokens, sinceRefill))>>)

\* the loop head reached with attempt a > 0: either the loop ends and line
\* 269 throws, or lines 210-213 start the retry backoff
LoopAgain(a, log, delays) ==
    IF LoopEnds(a)
    THEN /\ fPc' = "thrown"
         /\ fLog' = [log EXCEPT !.outcome = "thrown"]
         /\ fWait' = 0
         /\ fDelays' = delays
    ELSE /\ fPc' = "backoff"
         /\ fLog' = log
         /\ fWait' = backoff(a)
         /\ fDelays' = Append(delays, <<"backoff", backoff(a)>>)

\* CacheManager.get: the file of (type, md5(url)) if it exists and can be
\* read, else null
CacheGet(c, key, readOk) == IF readOk THEN c[key] ELSE NoDoc

\* CacheManager.set: writeFileSync of the document; a failing write is
\* caught and changes nothing
CacheSetNothing(c, key, doc, writeOk) == c

CacheSet(c, key, doc, writeOk) == IF writeOk THEN [c EXCEPT ![key] = doc] ELSE c

\* lines 280-283: the cached document is returned at once
ReturnCachedAfterToken(log, cached) ==
    /\ fPc' = "returned"
    /\ fLog' = [log EXCEPT !.outcome = "returned", !.from = "cache", !.doc = cached]
    /\ fDelays' = <<>>
    /\ GetTokenBody(1)
    /\ UNCHANGED <<gtPc, gtRounds>>

ReturnCached(log, cached) ==
    /\ fPc' = "returned"
    /\ fLog' = [log EXCEPT !.outcome = "returned", !.from = "cache", !.doc = cached]
    /\ fDelays' = <<>>
    /\ UNCHANGED limiterVars

\* parseProfileWithCache(url, type, forceRefresh): cache.get unless forced;
\* a hit returns, a miss enters fetchWithRetry with attempt = 0 and goes
\* straight to getToken
ParseProfileWithCache ==
    \E key \in FetchKeys, force \in BOOLEAN, readOk \in BOOLEAN :
        LET held == cache[key]
            cached == IF force THEN NoDoc ELSE CacheGet(cache, key, readOk)
            log == [NoLog EXCEPT !.readErr = (~force /\ held # NoDoc /\ ~readOk)]
        IN  /\ fPc = "idle"
            /\ fCalls < MaxScrapes
            /\ readOk \/ (~force /\ held # NoDoc)
            /\ fArgs' = [url |-> key[2], type |-> key[1], forceRefresh |-> force]
            /\ attempt' = 0
            /\ IF cached # NoDoc
               THEN ReturnCached(log, cached)
               ELSE Acquire(log, <<>>)
            /\ UNCHANGED <<cache, failedRequests, fWait, fCalls, mergeVars,
                           sessionVars, searchVars>>

\* What `await fetch` and `await response.text()` can produce: fetch throws
\* (transport error, abort by the request timeout), or a response with a
\* status and, read only when the status is 2xx, a body that is a plausible
\* page, shorter than 500 characters, or holds 'Too Many Requests'.
Statuses == {200, 429, 500}

Bodies == {"page", "short", "marker"}

Responses ==
    {[transport |-> TRUE, status |-> 0, body |-> "unread"]}
        \cup {[transport |-> FALSE, status |-> st, body |-> "unread"] :
                  st \in Statuses \ {200}}
        \cup {[transport |-> FALSE, status |-> 200, body |-> b] : b \in Bodies}

\* what a response is, whatever the code makes of it
ResponseClass(resp) ==
    IF resp.transport THEN "transport"
    ELSE IF resp.status = 429 THEN "429"
    ELSE IF resp.status # 200 THEN "status"
    ELSE IF resp.body # "page" THEN "body"
    ELSE "page"

\* lines 222-252: the path the code takes on a response
OutcomeWithoutSanityCheck(resp) ==
    IF resp.transport THEN "error"
    ELSE IF resp.status = 429 THEN "429"
    ELSE IF resp.status # 200 THEN "error"
    ELSE "ok"

Outcome(resp) ==
    IF resp.transport THEN "error"
    ELSE IF resp.status = 429 THEN "429"
    ELSE IF resp.status # 200 THEN "error"
    ELSE IF resp.body = "short" \/ resp.body = "marker" THEN "error"
    ELSE "ok"

\* lines 249-256 and 289-290: a 2xx response with a plausible body; the
\* failure record is deleted, the document is written to the cache (a
\* failing write is only logged) and returned
ResponseOk ==
    \E resp \in Responses, doc \in Payloads, writeOk \in BOOLEAN :
        /\ Outcome(resp) = "ok"
        /\ fPc = "request"
        /\ failedRequests' = failedRequests \ {fArgs.url}
        /\ cache' = CacheSet(cache, <<fArgs.type, fArgs.url>>, doc, writeOk)
        /\ fPc' = "returned"
        /\ fLog' = [fLog EXCEPT !.outcome = "returned", !.from = "network",
                                !.doc = doc, !.stored = writeOk,
                                !.last = ResponseClass(resp)]
        /\ fDelays' = <<>>
        /\ UNCHANGED <<fArgs, attempt, fWait, fCalls, limiterVars, mergeVars,
                       sessionVars, searchVars>>

\* lines 236-243: status 429; attempt++, then setTimeout(delay)
Response429 ==
    \E resp \in Responses, hint \in RetryAfterSeconds \cup {NoHint} :
        /\ Outcome(resp) = "429"
        /\ fPc = "request"
        /\ attempt' = AttemptAfter429(attempt)
        /\ fPc' = "wait429"
        /\ fWait' = delay429(hint, attempt')
        /\ fDelays' = << <<"429", delay429(hint, attempt')>> >>
        /\ fLog' = [fLog EXCEPT !.n429 = @ + 1, !.last = ResponseClass(resp)]
        /\ UNCHANGED <<cache, failedRequests, fArgs, fCalls, limiterVars,
                       mergeVars, sessionVars, searchVars>>

\* lines 245-252 and 258-266: fetch throws (transport error, timeout), the
\* status is not 2xx, or the body is shorter than 500 characters or holds
\* 'Too Many Requests'; all reach the catch block: attempt++, rethrow once
\* attempt >= maxAttempts, else back to the loop head
ResponseFailure ==
    \E resp \in Responses :
        /\ Outcome(resp) = "error"
        /\ fPc = "request"
        /\ attempt' = AttemptAfterError(attempt)
        /\ LoopAgain(attempt', [fLog EXCEPT !.last = ResponseClass(resp)], <<>>)
        /\ UNCHANGED <<cache, failedRequests, fArgs, fCalls, limiterVars,
                       mergeVars, sessionVars, searchVars>>

\* line 242: the 429 delay is over, `continue` goes to the loop head
Wait429Done ==
    /\ fPc = "wait429"
    /\ fWait = 0
    /\ LoopAgain(attempt, fLog, fDelays)
    /\ UNCHANGED <<cache, failedRequests, fArgs, attempt, fCalls,
                   limiterVars, mergeVars, sessionVars, searchVars>>

\* line 213: the retry backoff is over, getToken is called
BackoffDone ==
    /\ fPc = "backoff"
    /\ fWait = 0
    /\ Acquire(fLog, fDelays)
    /\ UNCHANGED <<cache, failedRequests, fArgs, attempt, fWait, fCalls,
                   mergeVars, sessionVars, searchVars>>

\* line 197: the fetching task's delay inside getToken is over
TokenWaitDone ==
    /\ fPc = "tokenWait"
    /\ gtWait[1] = 0
    /\ Acquire(fLog, fDelays)
    /\ UNCHANGED <<cache, failedRequests, fArgs, attempt, fWait, fCalls,
                   mergeVars, sessionVars, searchVars>>

\* the call is over: its locals are gone; of its record the model keeps the
\* outcome, the document, its source and whether it reached the cache
EndOfCall ==
    /\ fPc' = "idle"
    /\ fCalls' = fCalls + 1
    /\ attempt' = 0
    /\ fDelays' = <<>>
    /\ fLog' = [fLog EXCEPT !.n429 = 0, !.reqs = 0, !.readErr = FALSE,
                            !.last = "none"]

\* processUrl, lines 1578-1585 and 1599-1603: the returned document is
\* extracted into a record with a new uuid and merged into the collection
ExtractAndMerge ==
    LET record == [id |-> nextId, profileUrl |-> fArgs.url, payload |-> fLog.doc]
    IN  /\ fPc = "returned"
        /\ merged' = mergeProfiles(merged, <<record>>)
        /\ nextId' = nextId + 1
        /\ mergeCalls' = Min(mergeCalls + 1, 2)
        /\ UNCHANGED <<existing, newProfiles>>
        /\ EndOfCall
        /\ UNCHANGED <<cache, failedRequests, fArgs, fWait, limiterVars,
                       sessionVars, searchVars>>

\* processUrl, lines 1587-1592: the error is caught, the URL yields null
FetchFailed ==
    /\ fPc = "thrown"
    /\ EndOfCall
    /\ UNCHANGED <<cache, failedRequests, fArgs, fWait, limiterVars,
                   mergeVars, sessionVars, searchVars>>

\* Across the calls of a session the clock is observed once a minute: by
\* then every pending timer is due (timers fire on time or late) and the
\* bucket has refilled.
MinuteTick == TimePasses(Capacity)

\* the bucket as constructed, or as a burst of earlier requests left it
FetchTokenLevels == {0, Capacity}

InitFetch ==
    /\ tokens \in FetchTokenLevels
    /\ sinceRefill = 0
    /\ gtPc = [c \in Callers |-> "idle"]
    /\ gtWait = [c \in Callers |-> 0]
    /\ gtRounds = [c \in Callers |-> 0]
    /\ MergeAtRest
    /\ FetchAtRest
    /\ SessionAtRest
    /\ SearchAtRest

NextFetch ==
    \/ ParseProfileWithCache
    \/ ResponseOk
    \/ Response429
    \/ ResponseFailure
    \/ Wait429Done
    \/ BackoffDone
    \/ TokenWaitDone
    \/ ExtractAndMerge
    \/ FetchFailed
    \/ MinuteTick

SpecFetch == InitFetch /\ [][NextFetch]_vars

\* One parseProfileWithCache call, from any state earlier calls can have
\* left: an empty, a nearly empty or a full bucket, any cache content.
CallTokenLevels == {0, MsPerToken \div 2, MsPerToken, Capacity}

InitCall ==
    /\ tokens \in CallTokenLevels
    /\ sinceRefill = 0
    /\ gtPc = [c \in Callers |-> "idle"]
    /\ gtWait = [c \in Callers |-> 0]
    /\ gtRounds = [c \in Callers |-> 0]
    /\ cache \in [FetchKeys -> Payloads \cup {NoDoc}]
    /\ failedRequests = {}
    /\ fPc = "idle"
    /\ fArgs = NoCall
    /\ attempt = 0
    /\ fWait = 0
    /\ fLog = NoLog
    /\ fDelays = <<>>
    /\ fCalls = 0
    /\ MergeAtRest
    /\ SessionAtRest
    /\ SearchAtRest

NextCall ==
    \/ ParseProfileWithCache
    \/ ResponseOk
    \/ Response429
    \/ ResponseFailure
    \/ Wait429Done
    \/ BackoffDone
    \/ TokenWaitDone
    \/ TimerTick

\* the event loop runs every ready continuation, due timers fire, every
\* request is answered or aborted by its timeout, time advances
SpecCallFair ==
    /\ InitCall
    /\ [][NextCall]_vars
    /\ WF_vars(ResponseOk \/ Response429 \/ ResponseFailure)
    /\ WF_vars(Wait429Done)
    /\ WF_vars(BackoffDone)
    /\ WF_vars(TokenWaitDone)
    /\ WF_vars(TimerTick)

\* The fetching task and another task of its batch, which is in a
\* fetchWithRetry of its own: of that one the model keeps the getToken call
\* (line 216) whose return is followed by the task's request.
OtherTasks == {2}

NextPipeline ==
    \/ ParseProfileWithCache
    \/ ResponseOk
    \/ Response429
    \/ ResponseFailure
    \/ Wait429Done
    \/ BackoffDone
    \/ TokenWaitDone
    \/ \E c \in OtherTasks : GetToken(c)
    \/ \E c \in OtherTasks : GetTokenAfterDelay(c)
    \/ TimerTick

SpecPipeline == InitFetch /\ [][NextPipeline]_vars

\* ------------------------------------------------------ listing discovery
\* the options of the sessions that discover: debug or production, with or
\* without --force (--cache is always true)
DiscoveryOptions ==
    {o \in Options : /\ o.batchSize = DefaultOptions.batchSize
                     /\ o.delayBetweenBatches = DefaultOptions.delayBetweenBatches}

\* lines 1243-1247 and 1520: the forceRefresh argument the listing page is
\* resolved with is the literal false
ListingForceRefreshFromOptions(o) == o.forceRefresh

ListingForceRefresh(o) == FALSE

\* extractProfileLinks, lines 367-382: the links of a listing page are a
\* function of the page; page p of the model links to the first p profiles
LinksOn(p) == [i \in 1..Min(p, NumUrls) |-> i]

\* processIncrementalScraping, lines 1241-1247, and scrapeProfiles, lines
\* 1518-1520: a session run with any options resolves the listing page of
\* a category through parseProfileWithCache
DiscoverListing ==
    \E key \in FetchKeys, o \in DiscoveryOptions, readOk \in BOOLEAN :
        LET force == ListingForceRefresh(o)
            held == cache[key]
            cached == IF force THEN NoDoc ELSE CacheGet(cache, key, readOk)
            log == [NoLog EXCEPT !.readErr = (~force /\ held # NoDoc /\ ~readOk)]
        IN  /\ fPc = "idle"
            /\ fCalls < MaxScrapes
            /\ readOk \/ (~force /\ held # NoDoc)
            /\ opts' = o
            /\ fArgs' = [url |-> key[2], type |-> key[1], forceRefresh |-> force]
            /\ attempt' = 0
            /\ IF cached # NoDoc
               THEN ReturnCached(log, cached)
               ELSE Acquire(log, <<>>)
            /\ UNCHANGED <<cache, failedRequests, fWait, fCalls, mergeVars,
                           searchVars>>
            /\ UNCHANGED <<dataset, groupsFile, idolsFile, metadataFile,
                           fileState, saved, sPc, cat, newUrls, batchStart,
                           results, tasks, sLog>>

\* lines 1249-1250 and 1521-1522: cheerio.load of the returned page and
\* extractProfileLinks
ExtractLinks ==
    /\ fPc = "returned"
    /\ sLog' = [sLog EXCEPT !.listing = LinksOn(fLog.doc)]
    /\ EndOfCall
    /\ UNCHANGED <<cache, failedRequests, fArgs, fWait, limiterVars,
                   mergeVars, searchVars>>
    /\ UNCHANGED <<dataset, groupsFile, idolsFile, metadataFile,
                   fileState, saved, sPc, cat, newUrls, batchStart,
                   results, opts, tasks>>

NextDiscovery ==
    \/ DiscoverListing
    \/ ResponseOk
    \/ Response429
    \/ ResponseFailure
    \/ Wait429Done
    \/ BackoffDone
    \/ TokenWaitDone
    \/ ExtractLinks
    \/ FetchFailed
    \/ MinuteTick

SpecDiscovery == InitFetch /\ [][NextDiscovery]_vars

\* ------------------------------------------------------ production session
\* runProductionMode, lines 1293-1299: the categories in processing order
categories ==
    <<[type |-> "idol", gender |-> "female"],
      [type |-> "idol", gender |-> "male"],
      [type |-> "group", gender |-> "female"],
      [type |-> "group", gender |-> "male"],
      [type |-> "group", gender |-> "coed"]>>

\* runDebugMode, lines 1729-1735: the categories in the order a debug
\* session processes them
debugCategories ==
    <<[type |-> "group", gender |-> "female"],
      [type |-> "group", gender |-> "male"],
      [type |-> "group", gender |-> "coed"],
      [type |-> "idol", gender |-> "female"],
      [type |-> "idol", gender |-> "male"]>>

\* the category the loop of runProductionMode (line 1301) or of
\* runDebugMode (line 1737) is at
currentCategory == IF opts.debug THEN debugCategories[cat] ELSE categories[cat]

\* lines 1310-1336 and 1667-1695: the collection a category is merged into
CollectionOf(category) ==
    IF category.type = "idol"
    THEN IF category.gender = "female" THEN "femaleIdols" ELSE "maleIdols"
    ELSE IF category.gender = "female" THEN "girlGroups"
         ELSE IF category.gender = "male" THEN "boyGroups" ELSE "coedGroups"

\* the five collections of a dataset, one after the other
AllProfiles(ds) ==
    ds.femaleIdols \o ds.maleIdols \o ds.girlGroups \o ds.boyGroups
        \o ds.coedGroups

\* new Set(getAllProfileUrls(ds)), and existingUrls of lines 1235-1239
getAllProfileUrls(ds) == {p.profileUrl : p \in Range(AllProfiles(ds))}

\* the dataset made of the shards of the two data files
LoadedFrom(groups, idols) ==
    [femaleIdols |-> idols.femaleIdols, maleIdols |-> idols.maleIdols,
     girlGroups |-> groups.girlGroups, boyGroups |-> groups.boyGroups,
     coedGroups |-> groups.coedGroups]

\* loadExistingData, lines 1618-1645: a missing file is an empty shard (the
\* model keeps an empty shard as the content of a file that is not "ok");
\* a file that does not parse throws into the catch, which returns the
\* empty dataset
loadExistingData ==
    IF fileState.groups = "unreadable" \/ fileState.idols = "unreadable"
    THEN EmptyDataset
    ELSE LoadedFrom(groupsFile, idolsFile)

\* runProductionMode, lines 1279-1290: both files are `require`d in one try;
\* if either throws, `dataset` stays the empty one
RequiredDataset ==
    IF fileState = AllFilesOk THEN LoadedFrom(groupsFile, idolsFile)
    ELSE EmptyDataset

\* urls.filter(url => !known.has(url))
WithoutNothing(urls, known) == urls

Without(urls, known) == SelectSeq(urls, LAMBDA u : u \notin known)

\* extractProfileLinks: the links of a listing page, each once, in page
\* order; any profile link on the page counts, whatever its category
Listings ==
    {l \in SeqsUpTo(Urls, NumUrls) : \A i, j \in 1..Len(l) : l[i] = l[j] => i = j}

\* saveDataset writes the groups file, the idols file, then the metadata
\* file; a write that fails throws and leaves the later files as they were.
\* w: the number of writes that succeed.
WriteSteps == 0..3

SaveThrows(w) == w < 3

saveDataset(ds, w) ==
    /\ saved' = ds
    /\ groupsFile' = IF w >= 1 THEN GroupsData(ds) ELSE groupsFile
    /\ idolsFile' = IF w >= 2 THEN IdolsData(ds) ELSE idolsFile
    /\ metadataFile' = IF w >= 3 THEN MetaData(ds) ELSE metadataFile
    /\ fileState' = [groups |-> IF w >= 1 THEN "ok" ELSE fileState.groups,
                     idols |-> IF w >= 2 THEN "ok" ELSE fileState.idols]

\* saveIncrementalProgress: the dataset it passes to saveDataset
IncrementalDatasetUnmerged(res, category) == loadExistingData

IncrementalDataset(res, category) ==
    [loadExistingData EXCEPT
        ![CollectionOf(category)] = mergeProfiles(@, res)]

\* the entries of collection c placed into collection number k
RECURSIVE Placed(_, _, _, _)
Placed(c, place, k, i) ==
    IF i > Len(c) THEN <<>>
    ELSE (IF place[i] = k THEN <<c[i]>> ELSE <<>>) \o Placed(c, place, k, i + 1)

\* a dataset a previous session persisted: the profiles of c spread over
\* the five collections
Persisted(c, place) ==
    [femaleIdols |-> Placed(c, place, 1, 1), maleIdols |-> Placed(c, place, 2, 1),
     girlGroups |-> Placed(c, place, 3, 1), boyGroups |-> Placed(c, place, 4, 1),
     coedGroups |-> Placed(c, place, 5, 1)]

\* lines 1279-1290: both data files are read into `dataset`; runDebugMode
\* (lines 1719-1725) starts from an empty one and reads nothing
LoadExisting ==
    /\ sPc = "start"
    /\ dataset' = IF opts.debug THEN EmptyDataset ELSE RequiredDataset
    /\ sPc' = "category"
    /\ sLog' = [sLog EXCEPT !.loaded = getAllProfileUrls(dataset')]
    /\ UNCHANGED <<groupsFile, idolsFile, metadataFile, fileState,
                   saved, cat, newUrls, batchStart,
                   results, opts, tasks>>
    /\ UNCHANGED <<mergeVars, limiterVars, fetchVars, searchVars>>

\* line 1526: profileUrls.sort(() => Math.random() - 0.5).slice(0,
\* sampleSize), the links of a listing in any order, cut to the sample size
Sampled(listing) ==
    {l \in Listings : /\ Len(l) = Min(Len(listing), SampleSize)
                      /\ Range(l) \subseteq Range(listing)}

\* processIncrementalScraping up to the first batch of scrapeProfiles: the
\* listing is fetched (a failure leaves runProductionMode), filtered by the
\* URLs of `dataset` (lines 1235-1253) and by those on disk (1529-1534).
\* A debug session fetches the listing inside the try of scrapeProfiles
\* (lines 1516-1523: a failure returns []), samples it (1525-1527) and
\* filters it by the URLs on disk only
ProcessIncrementalScraping ==
    /\ sPc = "category"
    /\ \/ /\ sPc' = IF opts.debug THEN "returned" ELSE "aborted"
          /\ UNCHANGED <<newUrls, batchStart, results, sLog>>
       \/ \E listing \in Listings :
          \E sample \in IF opts.debug THEN Sampled(listing) ELSE {listing} :
            LET existingUrls == IF opts.debug THEN {}
                                ELSE getAllProfileUrls(dataset)
                urls == Without(sample, existingUrls)
                processedUrls == getAllProfileUrls(loadExistingData)
                todo == Without(urls, processedUrls)
            IN  /\ newUrls' = todo
                /\ batchStart' = 0
                /\ results' = <<>>
                /\ sPc' = IF todo = <<>> THEN "returned" ELSE "batch"
                /\ sLog' = [sLog EXCEPT !.listing = listing, !.n = Len(todo)]
    /\ UNCHANGED <<dataset, groupsFile, idolsFile, metadataFile, fileState,
                   saved, cat, opts, tasks>>
    /\ UNCHANGED <<mergeVars, limiterVars, fetchVars, searchVars>>

\* a promise not yet settled, and one that rejected
Pending == 0 - 1

Rejected == 0 - 2

\* line 1597: newUrls.slice(i, i + batchSize), batchSize being
\* CONFIG.concurrentRequests (line 1545)
BatchOfAllRemaining(urls, i) == SubSeq(urls, i + 1, Len(urls))

BatchOf(urls, i) == SubSeq(urls, i + 1, Min(i + BatchSize, Len(urls)))

\* line 1257: processIncrementalScraping calls scrapeProfiles with
\* useCache: true, whatever the options are; runDebugMode passes
\* options.useCache (line 1743)
useCache == IF opts.debug THEN opts.useCache ELSE TRUE

\* line 1577: the forceRefresh argument processUrl gives parseProfileWithCache
ForceRefreshOf(cacheUsed) == ~cacheUsed

\* lines 1574-1593: what the promise of processUrl settles to when the fetch
\* and the extraction yield doc (NoDoc: one of them threw); the catch turns
\* every error into null
ResolutionRethrowing(doc) == IF doc = NoDoc THEN Rejected ELSE doc

Resolution(doc) == doc

\* Promise.all(batch.map(processUrl)) has settled
PromiseAll(t) == \A i \in 1..Len(t) : t[i] # Pending

\* lines 1597-1598: the URLs of the batch are handed to processUrl at once
Dispatch ==
    /\ sPc = "batch"
    /\ LET batch == BatchOf(newUrls, batchStart)
       IN  /\ tasks' = [i \in 1..Len(batch) |-> Pending]
           /\ sLog' = [sLog EXCEPT !.chunks = @ + 1,
                                   !.batchLen = Len(batch),
                                   !.forced = ForceRefreshOf(useCache),
                                   !.dispatched = @ \o batch]
    /\ sPc' = "fetching"
    /\ UNCHANGED <<dataset, groupsFile, idolsFile, metadataFile, fileState,
                   saved, cat, newUrls,
                   batchStart, results, opts>>
    /\ UNCHANGED <<mergeVars, limiterVars, fetchVars, searchVars>>

\* what the fetch and extraction of one profile yield: the profile, or
\* nothing when one of them threw; the session never looks into a profile,
\* so the first payload stands for all
ProcessOutcomes == {1, NoDoc}

\* one processUrl settles: with the extracted profile, or with null when
\* its fetch or its extraction failed
Settle ==
    /\ sPc = "fetching"
    /\ \E i \in 1..Len(tasks), doc \in ProcessOutcomes :
         /\ tasks[i] = Pending
         /\ tasks' = [tasks EXCEPT ![i] = Resolution(doc)]
         /\ sLog' = [sLog EXCEPT !.failed = IF doc = NoDoc THEN @ + 1 ELSE @]
    /\ UNCHANGED <<dataset, groupsFile, idolsFile, metadataFile, fileState,
                   saved, sPc, cat, newUrls,
                   batchStart, results, opts>>
    /\ UNCHANGED <<mergeVars, limiterVars, fetchVars, searchVars>>

\* lines 1596-1607: after the pause of line 1606 the loop goes on to the
\* next batch or returns `results`
NextBatch(res) ==
    /\ results' = res
    /\ sLog' = [sLog EXCEPT !.pauses = @ + 1, !.pauseMs = rateLimitDelay]
    /\ IF batchStart + BatchSize < Len(newUrls)
       THEN /\ batchStart' = batchStart + BatchSize
            /\ sPc' = "batch"
            /\ UNCHANGED newUrls
       ELSE /\ batchStart' = 0
            /\ sPc' = "returned"
            /\ newUrls' = <<>>

\* lines 1609-1612: the catch of scrapeProfiles returns []
ScrapeFailed(saveThrew) ==
    /\ results' = <<>>
    /\ sLog' = [sLog EXCEPT !.saveFailed = saveThrew]
    /\ batchStart' = 0
    /\ sPc' = "returned"
    /\ newUrls' = <<>>

\* the rest of an iteration of the batch loop of scrapeProfiles, once
\* Promise.all has settled: every non-null result is a record with a new
\* uuid, the records join `results`, a non-empty `results` goes to
\* saveIncrementalProgress, and the loop pauses
Collect ==
    /\ sPc = "fetching"
    /\ PromiseAll(tasks)
    /\ LET batch == BatchOf(newUrls, batchStart)
           pairs == [i \in 1..Len(tasks) |-> <<batch[i], tasks[i]>>]
           shape == SelectSeq(pairs, LAMBDA p : p[2] # NoDoc)
           res == results \o Extracted(shape, nextId)
       IN  IF \E i \in 1..Len(tasks) : tasks[i] = Rejected
           THEN /\ ScrapeFailed(FALSE)
                /\ UNCHANGED <<nextId, groupsFile, idolsFile, metadataFile,
                               fileState, saved>>
           ELSE /\ nextId' = nextId + Len(shape)
                /\ IF res = <<>>
                   THEN /\ NextBatch(res)
                        /\ UNCHANGED <<groupsFile, idolsFile, metadataFile,
                                       fileState, saved>>
                   ELSE \E w \in WriteSteps :
                          /\ saveDataset(IncrementalDataset(res, currentCategory), w)
                          /\ IF SaveThrows(w) THEN ScrapeFailed(TRUE)
                             ELSE NextBatch(res)
    /\ tasks' = <<>>
    /\ UNCHANGED <<dataset, cat, opts, existing, newProfiles, merged, mergeCalls>>
    /\ UNCHANGED <<limiterVars, fetchVars, searchVars>>

\* runProductionMode, lines 1309-1346: the returned profiles are merged into
\* the category's collection of `dataset`, which is saved; a failed save
\* leaves runProductionMode, else the pause of line 1346 follows.
\* runDebugMode, lines 1746-1761: the returned profiles are pushed onto
\* the collection, the pause follows, and `dataset` is saved once, after
\* the last category
MergeAndSave ==
    /\ sPc = "returned"
    /\ LET ds == [dataset EXCEPT
                     ![CollectionOf(currentCategory)] =
                         IF opts.debug THEN @ \o results
                         ELSE mergeProfiles(@, results)]
           last == cat = Len(categories)
       IN  /\ dataset' = ds
           /\ IF opts.debug /\ ~last
              THEN /\ sPc' = "category"
                   /\ cat' = cat + 1
                   /\ sLog' = [NoSessionLog EXCEPT
                                  !.catPauseMs = opts.delayBetweenBatches,
                                  !.loaded = sLog.loaded]
                   /\ UNCHANGED <<groupsFile, idolsFile, metadataFile,
                                  fileState, saved>>
              ELSE \E w \in WriteSteps :
                     /\ saveDataset(ds, w)
                     /\ IF SaveThrows(w)
                        THEN /\ sPc' = "aborted"
                             /\ cat' = cat
                             /\ sLog' = [NoSessionLog EXCEPT
                                            !.saveFailed = TRUE,
                                            !.catPauseMs =
                                                IF opts.debug
                                                THEN opts.delayBetweenBatches
                                                ELSE sLog.catPauseMs,
                                            !.loaded = sLog.loaded]
                        ELSE /\ sPc' = IF last THEN "done" ELSE "category"
                             /\ cat' = IF last THEN cat ELSE cat + 1
                             /\ sLog' = [NoSessionLog EXCEPT
                                            !.catPauseMs = opts.delayBetweenBatches,
                                            !.loaded = sLog.loaded]
    /\ results' = <<>>
    /\ UNCHANGED <<newUrls, batchStart, opts, tasks>>
    /\ UNCHANGED <<mergeVars, limiterVars, fetchVars, searchVars>>

\* the profiles of a persisted dataset; the session never looks into a
\* payload, so the persisted ones all carry the first
PersistedProfiles == {c \in InitCollections : \A i \in 1..Len(c) : c[i].payload = 1}

\* a data directory a previous session persisted, the session not yet begun
InitSession ==
    /\ \E c \in PersistedProfiles : \E place \in [1..Len(c) -> 1..Len(categories)] :
         /\ groupsFile = GroupsData(Persisted(c, place))
         /\ idolsFile = IdolsData(Persisted(c, place))
         /\ metadataFile = MetaData(Persisted(c, place))
         /\ fileState = AllFilesOk
         /\ saved = Persisted(c, place)
         /\ nextId = Len(c) + 1
    /\ dataset = EmptyDataset
    /\ sPc = "start"
    /\ cat = 1
    /\ newUrls = <<>>
    /\ batchStart = 0
    /\ results = <<>>
    /\ opts = DefaultOptions
    /\ tasks = <<>>
    /\ sLog = NoSessionLog
    /\ existing = <<>>
    /\ newProfiles = <<>>
    /\ merged = <<>>
    /\ mergeCalls = 0
    /\ LimiterAtRest
    /\ FetchAtRest
    /\ SearchAtRest

NextSession ==
    \/ LoadExisting
    \/ ProcessIncrementalScraping
    \/ Dispatch
    \/ Settle
    \/ Collect
    \/ MergeAndSave

SpecSession == InitSession /\ [][NextSession]_vars

\* the scrape command run with any options, on a data directory holding at
\* most one profile
InitRun ==
    /\ opts \in Options
    /\ \E c \in PersistedProfiles : \E k \in 1..Len(categories) :
         LET ds == Persisted(c, [i \in 1..Len(c) |-> k])
         IN  /\ Len(c) <= 1
             /\ groupsFile = GroupsData(ds)
             /\ idolsFile = IdolsData(ds)
             /\ metadataFile = MetaData(ds)
             /\ fileState = AllFilesOk
             /\ saved = ds
             /\ nextId = Len(c) + 1
    /\ dataset = EmptyDataset
    /\ sPc = "start"
    /\ cat = 1
    /\ newUrls = <<>>
    /\ batchStart = 0
    /\ results = <<>>
    /\ tasks = <<>>
    /\ sLog = NoSessionLog
    /\ existing = <<>>
    /\ newProfiles = <<>>
    /\ merged = <<>>
    /\ mergeCalls = 0
    /\ LimiterAtRest
    /\ FetchAtRest
    /\ SearchAtRest

SpecRun == InitRun /\ [][NextSession]_vars

\* the states a data file can be in when a session starts
FileStates == {"ok", "missing", "unreadable"}

\* a production session started on a data directory of which a data file
\* is missing or does not parse; the other one, if any, holds what a
\* previous session persisted
InitColdStart ==
    /\ fileState \in [{"groups", "idols"} -> FileStates] \ {AllFilesOk}
    /\ \E c \in PersistedProfiles : \E place \in [1..Len(c) -> 1..Len(categories)] :
         LET ds == Persisted(c, place)
         IN  /\ groupsFile = IF fileState.groups = "ok" THEN GroupsData(ds)
                             ELSE GroupsData(EmptyDataset)
             /\ idolsFile = IF fileState.idols = "ok" THEN IdolsData(ds)
                            ELSE IdolsData(EmptyDataset)
             /\ metadataFile = MetaData(ds)
             /\ saved = ds
             /\ nextId = Len(c) + 1
    /\ dataset = EmptyDataset
    /\ sPc = "start"
    /\ cat = 1
    /\ newUrls = <<>>
    /\ batchStart = 0
    /\ results = <<>>
    /\ opts = DefaultOptions
    /\ tasks = <<>>
    /\ sLog = NoSessionLog
    /\ existing = <<>>
    /\ newProfiles = <<>>
    /\ merged = <<>>
    /\ mergeCalls = 0
    /\ LimiterAtRest
    /\ FetchAtRest
    /\ SearchAtRest

SpecColdStart == InitColdStart /\ [][NextSession]_vars

\* ================================================================ claims

\* ------------------------------------------------------------------ search
\* A name or a query word is one of a few lower-cased words; NoWord: the
\* item has no such name.
Words == 1..NumWords

NoWord == 0

\* the options of search: type and limit (default 10)
SearchTypes == {"idol", "group", "all"}

LimitOptions == {1, 10}

\* line 1865: the limit of the inner search of a query of several words
InnerLimit == 50

\* The items of the dataset: a group with its stage name and the name of a
\* current member, an idol with its stage name and the name of its group
\* (`rel`); ids are uuids, here the position.
SearchDatasets ==
    {[i \in 1..NumItems |->
         [id |-> i, type |-> t[i], stage |-> n[i], rel |-> r[i]]] :
        t \in [1..NumItems -> {"idol", "group"}],
        n \in [1..NumItems -> Words],
        r \in [1..NumItems -> Words \cup {NoWord}]}

\* Fuse's fuzzy match of a query word against a key, and its score in
\* tenths (0: the key is the word; threshold 0.4)
Fuzzy(w, key) == key # NoWord /\ (w - key) \in {0 - 1, 0, 1}

FuseScore(w, key) == IF w = key THEN 0 ELSE 3

\* array.sort((a, b) => (a.score || 1) - (b.score || 1)): stable, ascending
SortKey(r) == IF r.score = 0 THEN 10 ELSE r.score

RECURSIVE SortByScore(_)
SortByScore(rs) ==
    IF rs = <<>> THEN <<>>
    ELSE LET sorted == SortByScore(SubSeq(rs, 1, Len(rs) - 1))
             last == rs[Len(rs)]
             before == SelectSeq(sorted, LAMBDA r : SortKey(r) <= SortKey(last))
             after == SelectSeq(sorted, LAMBDA r : SortKey(r) > SortKey(last))
         IN  before \o <<last>> \o after

\* lines 1969-1972: the first result of every item id is kept
RECURSIVE UniqueResults(_)
UniqueResults(rs) ==
    IF rs = <<>> THEN <<>>
    ELSE LET init == UniqueResults(SubSeq(rs, 1, Len(rs) - 1))
             last == rs[Len(rs)]
         IN  IF \E k \in 1..Len(init) : init[k].item.id = last.item.id
             THEN init ELSE Append(init, last)

\* array.slice(0, limit)
Slice(rs, limit) == SubSeq(rs, 1, Min(limit, Len(rs)))

\* groupSearcher.search(query): the groups whose stage name matches,
\* best score first (the member names are no key of the group searcher)
GroupFuse(data, w) ==
    SortByScore(
        [k \in 1..Len(SelectSeq(data, LAMBDA it :
                 it.type = "group" /\ Fuzzy(w, it.stage))) |->
            LET it == SelectSeq(data, LAMBDA x :
                          x.type = "group" /\ Fuzzy(w, x.stage))[k]
            IN  [item |-> it, score |-> FuseScore(w, it.stage)]])

\* idolSearcher.search(query): the idols whose stage name or group name
\* matches (keys names.* and groups.name)
IdolFuse(data, w) ==
    SortByScore(
        [k \in 1..Len(SelectSeq(data, LAMBDA it :
                 it.type = "idol" /\ (Fuzzy(w, it.stage) \/ Fuzzy(w, it.rel)))) |->
            LET it == SelectSeq(data, LAMBDA x :
                          x.type = "idol" /\ (Fuzzy(w, x.stage) \/ Fuzzy(w, x.rel)))[k]
            IN  [item |-> it,
                 score |-> IF w = it.stage \/ w = it.rel THEN 0 ELSE 3]])

\* lines 1888-1922: the groups whose stage name is the query, score -1
ExactMatches(data, w) ==
    LET groups == SelectSeq(data, LAMBDA it : it.type = "group" /\ it.stage = w)
    IN  [k \in 1..Len(groups) |->
            [item |-> groups[k], type |-> "group", score |-> 0 - 10]]

\* lines 1926-1951: the fuzzy group results that are no exact match, with
\* score `result.score || 1`
GroupResults(data, w) ==
    LET fuzzy == SelectSeq(GroupFuse(data, w), LAMBDA r : r.item.stage # w)
    IN  [k \in 1..Len(fuzzy) |->
            [item |-> fuzzy[k].item, type |-> "group",
             score |-> IF fuzzy[k].score = 0 THEN 10 ELSE fuzzy[k].score]]

\* lines 1953-1962: the fuzzy idol results, with score `(result.score || 1) * 2`
IdolResults(data, w) ==
    LET fuzzy == IdolFuse(data, w)
    IN  [k \in 1..Len(fuzzy) |->
            [item |-> fuzzy[k].item, type |-> "idol",
             score |-> 2 * (IF fuzzy[k].score = 0 THEN 10 ELSE fuzzy[k].score)]]

\* lines 1886-1974 for a query of one word
SearchOneWord(data, w, type, limit) ==
    LET exact == IF type # "idol" THEN ExactMatches(data, w) ELSE <<>>
    IN  IF exact # <<>> /\ type = "group"
        THEN Slice(exact, limit)
        ELSE LET groups == IF type = "all" \/ type = "group"
                           THEN GroupResults(data, w) ELSE <<>>
                 idols == IF type = "all" \/ type = "idol"
                          THEN IdolResults(data, w) ELSE <<>>
             IN  Slice(UniqueResults(SortByScore(exact \o groups \o idols)), limit)

\* lines 1868-1887: a result of the first word is kept when every other
\* word is in one of its strings (stage name, member or group names)
HasAllWords(r, restWords) ==
    \A k \in 1..Len(restWords) :
        restWords[k] = r.item.stage \/ restWords[k] = r.item.rel

\* search(query, {type, limit}); a query of several words searches its
\* first word with the default type and limit 50 (line 1865), then filters
search(data, query, type, limit) ==
    IF Len(query) > 1
    THEN LET firstWordResults == SearchOneWord(data, query[1], "all", InnerLimit)
             restWords == SubSeq(query, 2, Len(query))
             kept == SelectSeq(firstWordResults,
                               LAMBDA r : HasAllWords(r, restWords))
         IN  Slice(UniqueResults(SortByScore(kept)), limit)
    ELSE SearchOneWord(data, query[1], type, limit)

Queries == {q \in SeqsUpTo(Words, MaxQueryWords) : q # <<>>}

\* the module has imported a dataset and search is called with a query and
\* options; the other components are at rest
InitSearch ==
    /\ searchData \in SearchDatasets
    /\ searchArgs \in [query : Queries, type : SearchTypes, limit : LimitOptions,
                        returned : {FALSE}]
    /\ searchResults = <<>>
    /\ existing = <<>>
    /\ newProfiles = <<>>
    /\ merged = <<>>
    /\ nextId = 1
    /\ mergeCalls = 0
    /\ LimiterAtRest
    /\ FetchAtRest
    /\ SessionAtRest

\* the call returns
Search ==
    /\ ~searchArgs.returned
    /\ searchArgs' = [searchArgs EXCEPT !.returned = TRUE]
    /\ searchResults' = search(searchData, searchArgs.query, searchArgs.type,
                               searchArgs.limit)
    /\ UNCHANGED <<searchData, mergeVars, limiterVars, fetchVars, sessionVars>>

NextSearch == Search

SpecSearch == InitSearch /\ [][NextSearch]_vars

\* ---------------------------------------------------------------- C1
\* no two profiles of a dataset share a profileUrl, no two share an id
Unique(ds) == UniqueUrls(AllProfiles(ds)) /\ UniqueIds(AllProfiles(ds))

\* C1: starting from a persisted dataset with unique profileUrls and ids,
\* at every point of a production session the dataset last handed to
\* saveDataset, and the dataset the data files hold, have no two profiles
\* (in the same or in different collections) with the same profileUrl and
\* no two with the same id.
C1_SavedDatasetUnique == Unique(saved) /\ Unique(loadExistingData)

\* the session ran to its end with every URL in the saved dataset, after
\* handing out more ids than there are URLs: a scraped record was lost to a
\* failed save and its URL scraped again
C1_Witness ==
    /\ sPc = "done"
    /\ Len(AllProfiles(saved)) = NumUrls
    /\ nextId > NumUrls + 1

\* ---------------------------------------------------------------- C2
\* C2: for an existing collection with unique profileUrls and any
\* newProfiles, mergeProfiles returns a collection without duplicate
\* profileUrl in which every input record's profileUrl occurs exactly once.
C2_MergeRepresentsEachUrlOnce ==
    (mergeCalls >= 1 /\ UniqueUrls(existing)) =>
        /\ UniqueUrls(merged)
        /\ \A r \in Range(existing) \cup Range(newProfiles) :
               CountUrl(merged, r.profileUrl) = 1

\* ---------------------------------------------------------------- C3
\* C3: across mergeProfiles calls every profile already in the collection
\* keeps its position, its profileUrl and its id, whatever id an incoming
\* record with the same profileUrl carries; only its payload may change, and
\* then to the payload of an incoming record with that profileUrl.
C3_IdentityStable ==
    mergeCalls >= 1 =>
        /\ Len(merged) >= Len(existing)
        /\ \A i \in 1..Len(existing) :
               /\ merged[i].profileUrl = existing[i].profileUrl
               /\ merged[i].id = existing[i].id
               /\ \/ merged[i].payload = existing[i].payload
                  \/ \E k \in 1..Len(newProfiles) :
                         /\ newProfiles[k].profileUrl = existing[i].profileUrl
                         /\ newProfiles[k].payload = merged[i].payload

\* a merge replaced the payload of a known profile by that of an incoming
\* record that carried a different id
C3_Witness ==
    /\ mergeCalls >= 1
    /\ \E i \in 1..Len(existing) : \E k \in 1..Len(newProfiles) :
           /\ newProfiles[k].profileUrl = existing[i].profileUrl
           /\ newProfiles[k].id # existing[i].id
           /\ merged[i].payload = newProfiles[k].payload
           /\ merged[i].payload # existing[i].payload
           /\ merged[i].id = existing[i].id

\* ---------------------------------------------------------------- C6
\* C6: in every reachable state of the rate limiter, whatever the
\* interleaving of getToken calls and the time elapsed,
\* 0 <= tokens <= capacity.
C6_TokenBounds == 0 <= tokens /\ tokens <= Capacity

\* the bucket was emptied by a grant while another caller waits for refill
C6_Witness ==
    /\ tokens = 0
    /\ \E c \in Callers : gtPc[c] = "returned"
    /\ \E c \in Callers : gtPc[c] = "waiting"

\* ---------------------------------------------------------------- C7
\* tokens a getToken call running now would find after its refill
Available == Refilled(tokens, sinceRefill)

\* C7: no token is granted twice.  At most one call returns per step; a
\* step in which a call returns finds at least one token available and
\* leaves exactly one token less; in any other step the available tokens
\* grow by no more than the time that passed refills.
C7_OneDebitPerGrant ==
    [][LET returns == {c \in Callers : gtPc[c] # "returned" /\ gtPc'[c] = "returned"}
       IN  /\ Cardinality(returns) <= 1
           /\ returns # {} =>
                  /\ Available >= MsPerToken
                  /\ Available' = Available - MsPerToken
           /\ returns = {} =>
                  Available' <= Available + Max(sinceRefill' - sinceRefill, 0)]_vars

\* two callers contended for one token: one has returned, the other was
\* woken, found the token gone and is in its second delay
C7_Witness ==
    \E c1, c2 \in Callers :
        /\ gtPc[c1] = "returned"
        /\ gtPc[c2] = "waiting"
        /\ gtRounds[c2] = 2

\* ---------------------------------------------------------------- C8
\* C8: getToken never denies: provided time advances and due timers fire,
\* every caller that is waiting for a token eventually returns, also a
\* caller that was woken after another caller had consumed the token.
C8_EveryCallerReturns ==
    \A c \in Callers : (gtPc[c] \in {"idle", "waiting"}) ~> (gtPc[c] = "returned")

\* a caller returned after it had been woken without a token and had waited
\* a second time
C8_Witness ==
    \E c \in Callers : gtPc[c] = "returned" /\ gtRounds[c] = 2

\* ---------------------------------------------------------------- C4
\* a parseProfileWithCache call that repeats the previous call (same URL,
\* same type, no force-refresh either time) after that call fetched the
\* document from the network and returned it
ScrapedAgain ==
    /\ fPc = "idle"
    /\ fPc' # "idle"
    /\ fLog.outcome = "returned"
    /\ fLog.from = "network"
    /\ fArgs' = fArgs
    /\ ~fArgs.forceRefresh

\* a call has just returned a document it fetched from the network
FetchedFromNetwork == fPc = "returned" /\ fLog.from = "network"

\* the record extracted from a returned document is merged into a
\* collection that already has an entry for its URL
MergedAgain ==
    /\ fPc = "returned"
    /\ fPc' = "idle"
    /\ \E i \in 1..Len(merged) : merged[i].profileUrl = fArgs.url

\* every entry keeps its id and URL, and the entry of the scraped URL holds
\* the payload just extracted
EntryKept ==
    /\ Len(merged') = Len(merged)
    /\ \A i \in 1..Len(merged) :
           /\ merged'[i].id = merged[i].id
           /\ merged'[i].profileUrl = merged[i].profileUrl
           /\ merged[i].profileUrl = fArgs.url => merged'[i].payload = fLog.doc

C5_CacheHitIsFree ==
    [][(/\ fPc = "idle"
        /\ fPc' # "idle"
        /\ ~fArgs'.forceRefresh
        /\ cache[<<fArgs'.type, fArgs'.url>>] # NoDoc
        /\ ~fLog'.readErr) =>
           /\ fPc' = "returned"
           /\ fLog'.doc = cache[<<fArgs'.type, fArgs'.url>>]
           /\ fLog'.reqs = 0
           /\ fDelays' = <<>>
           /\ fWait' = 0
           /\ tokens' = tokens
           /\ sinceRefill' = sinceRefill
           /\ gtPc' = gtPc
           /\ gtWait' = gtWait]_vars

\* a call was answered from the cache while the bucket was not full and
\* time had passed since the last refill: a getToken would have changed
\* both tokens and lastRefill
C5_Witness ==
    /\ fPc = "returned"
    /\ fLog.from = "cache"
    /\ fLog.reqs = 0
    /\ tokens < Capacity
    /\ sinceRefill > 0

\* ---------------------------------------------------------------- C9
\* the fetching task is inside fetchWithRetry
InFetchWithRetry == fPc \in {"request", "wait429", "backoff", "tokenWait"}

\* C9: one fetchWithRetry call issues at most maxAttempts network requests
\* whatever the outcomes, throws only when maxAttempts requests have been
\* answered by a failure or a 429, and always terminates by returning or
\* throwing.
C9_BoundedAttemptsAndTermination ==
    /\ [](fLog.reqs <= retryAttempts)
    /\ [](fPc = "thrown" => fLog.reqs = retryAttempts)
    /\ (InFetchWithRetry ~> (fPc \in {"returned", "thrown"}))

\* a call threw after five requests answered by a mix of 429 responses and
\* other failures
C9_Witness ==
    /\ fPc = "thrown"
    /\ fLog.reqs = retryAttempts
    /\ fLog.n429 \in 1..(retryAttempts - 1)

\* ---------------------------------------------------------------- C10
\* C10 as claimed: a 429 response does not count toward maxAttempts:
\* fetchWithRetry fails permanently only after maxAttempts failures of the
\* other classes.
C10_429NotCounted ==
    fPc = "thrown" => fLog.reqs - fLog.n429 >= retryAttempts

\* C10 as amended: a 429 response increments `attempt` like a failure of
\* the other classes, so `attempt` is the number of requests answered by a
\* 429 or a failure, and fetchWithRetry fails permanently when 429 responses
\* and other failures together number maxAttempts.
C10_429CountsAsAttempt ==
    /\ fPc \in {"wait429", "backoff", "tokenWait", "thrown"} => attempt = fLog.reqs
    /\ fPc = "request" => attempt = fLog.reqs - 1
    /\ fPc = "thrown" => fLog.reqs = retryAttempts

\* a call failed permanently on 429 responses alone
C10_Witness ==
    /\ fPc = "thrown"
    /\ fLog.n429 = retryAttempts

\* ---------------------------------------------------------------- C11
\* the request now in flight follows a 429 response; fDelays holds the delays
\* awaited in between
AfterA429 == fPc = "request" /\ fDelays # <<>> /\ fDelays[1][1] = "429"

\* C11: after a 429 response the only delay before the next request is the
\* Retry-After hint times 1000 ms when the header is present, else the
\* exponential backoff of the incremented attempt counter; no other delay
\* is added (the wait for a rate-limiter token apart).
C11_OnlyThe429Delay ==
    AfterA429 =>
        /\ Len(SelectSeq(fDelays, LAMBDA e : e[1] # "token")) = 1
        /\ \/ \E hint \in RetryAfterSeconds : fDelays[1][2] = hint * 1000
           \/ fDelays[1][2] = Exponential(attempt)

\* ---------------------------------------------------------------- C12
\* C12: every delay fetchWithRetry awaits between two requests (backoff or
\* 429 delay) is at most the cap of 30000 ms, and the exponential backoff
\* never decreases as the attempt counter grows.
C12_DelaysCappedAndMonotone ==
    /\ \A i \in 1..Len(fDelays) :
           fDelays[i][1] \in {"429", "backoff"} => fDelays[i][2] <= MaxBackoff
    /\ \A k \in 1..(retryAttempts - 1) :
           /\ backoff(k) <= backoff(k + 1)
           /\ delay429(NoHint, k) <= delay429(NoHint, k + 1)

\* ---------------------------------------------------------------- C13
\* C13: once fetchWithRetry has thrown after exhausting its attempts a
\* failure record exists for the URL, and after a successful fetch no
\* failure record exists for it.
C13_FailureRecordFollowsOutcome ==
    /\ fPc = "thrown" => fArgs.url \in failedRequests
    /\ (fPc = "returned" /\ fLog.from = "network") =>
           fArgs.url \notin failedRequests

\* ---------------------------------------------------------------- C14
\* the response being answered in this step is a 2xx one whose body is too
\* short or holds the rate-limit marker, resp. a transport failure
AnsweredBy(class) == fPc = "request" /\ fLog.last = "none" /\ fLog'.last = class

HandledAsFailure ==
    /\ attempt' = attempt + 1
    /\ cache' = cache
    /\ fLog'.doc = fLog.doc
    /\ fLog'.outcome # "returned"
    /\ IF attempt' >= retryAttempts
       THEN fPc' = "thrown"
       ELSE /\ fPc' = "backoff"
            /\ fWait' = backoff(attempt')
            /\ fDelays' = << <<"backoff", backoff(attempt')>> >>

\* C14: a 2xx response whose body is shorter than 500 characters or holds
\* 'Too Many Requests' is handled exactly like a transport failure: the
\* attempt is counted, nothing is cached or returned, and the same backoff
\* precedes the next attempt (or the call throws on the last attempt).
C14_BadBodyIsAFailure ==
    [][(AnsweredBy("body") \/ AnsweredBy("transport")) => HandledAsFailure]_vars

\* a call threw on its last attempt because of an implausible 2xx body,
\* with nothing cached
C14_Witness ==
    /\ fPc = "thrown"
    /\ fLog.last = "body"
    /\ cache[<<fArgs.type, fArgs.url>>] = NoDoc

\* ---------------------------------------------------------------- C15
\* ceil(n / b)
CeilDiv(n, b) == (n + b - 1) \div b

\* scrapeProfiles has gone through its whole list, no save having thrown
ScrapeReturned == sPc = "returned" /\ sLog.n > 0 /\ ~sLog.saveFailed

\* C15: for N URLs to fetch and batch size B, scrapeProfiles processes
\* exactly ceil(N/B) chunks of at most B URLs in list order and awaits
\* exactly ceil(N/B) - 1 inter-batch delays, none after the final chunk.
C15_DelaysBetweenChunksOnly ==
    /\ sLog.batchLen <= BatchSize
    /\ ScrapeReturned =>
          /\ sLog.chunks = CeilDiv(sLog.n, BatchSize)
          /\ sLog.pauses = CeilDiv(sLog.n, BatchSize) - 1

\* ---------------------------------------------------------------- C16
\* C16: the number of URLs dispatched in a batch equals the --batch-size
\* option (bounded by the URLs left), and the pause between consecutive
\* batches equals the --delay option.
C16_OptionsGovernBatches ==
    /\ sPc = "fetching" =>
          sLog.batchLen = Min(opts.batchSize, Len(newUrls) - batchStart)
    /\ sLog.pauses > 0 => sLog.pauseMs = opts.delayBetweenBatches

\* ---------------------------------------------------------------- C17
InFlight == {i \in 1..Len(tasks) : tasks[i] = Pending}

\* the data files hold ds
OnDisk(ds) == groupsFile = GroupsData(ds) /\ idolsFile = IdolsData(ds)

Collection(ds) == ds[CollectionOf(currentCategory)]

C20_ForceRefetchesEverything ==
    (opts.forceRefresh /\ ScrapeReturned) =>
        /\ sLog.dispatched = sLog.listing
        /\ sLog.forced

\* ---------------------------------------------------------------- C21
\* a batch of scrapeProfiles has completed, with records extracted so far
BatchCompleted == sPc \in {"batch", "returned"} /\ results # <<>>

\* C21: when a batch has completed and at least one record has been
\* extracted so far in the category, the data files hold every record
\* extracted in the batches completed so far.
C21_CheckpointAfterEveryBatch ==
    BatchCompleted =>
        \A i \in 1..Len(results) :
            \E j \in 1..Len(Collection(loadExistingData)) :
                Collection(loadExistingData)[j] = results[i]

\* the first of two batches has completed with a record, the second is
\* not yet dispatched
C21_Witness ==
    /\ sPc = "batch"
    /\ batchStart > 0
    /\ sLog.chunks = 1
    /\ Len(results) = sLog.chunks * BatchSize

\* ---------------------------------------------------------------- C22
\* C22: a write failure in any dataset save, the per-batch checkpoint save
\* included, reaches the session driver and ends the session: the session
\* never goes on after a save that threw.
C22_SaveFailureEndsSession == sLog.saveFailed => sPc = "aborted"

\* ---------------------------------------------------------------- C23
\* C23: only persistence failures halt a session: a session that has
\* halted before Done has seen a dataset save throw, whichever fetches
\* failed.
C23_OnlySaveFailuresHalt == sPc = "aborted" => sLog.saveFailed

\* ---------------------------------------------------------------- C24
\* C24: saveDataset is atomic per save: after a step the groups file, the
\* idols file and the metadata file all reflect the dataset of the last
\* saveDataset call, or all three are as they were before the step.
C24_SaveIsAtomic ==
    [][\/ /\ groupsFile' = GroupsData(saved')
          /\ idolsFile' = IdolsData(saved')
          /\ metadataFile' = MetaData(saved')
       \/ /\ groupsFile' = groupsFile
          /\ idolsFile' = idolsFile
          /\ metadataFile' = metadataFile]_vars

\* ---------------------------------------------------------------- C25
\* C25: when one of the two data files is missing or unreadable at session
\* start, the session starts with that shard empty and with every profile
\* of the other shard loaded.
C25_ShardsLoadIndependently ==
    (sPc = "category" /\ cat = 1) => dataset = LoadedFrom(groupsFile, idolsFile)

\* ---------------------------------------------------------------- C26
\* C26: mergeProfiles is idempotent in its second argument: merging the
\* list just merged once more into the result yields the same collection
\* (same length, order, ids and payloads).
C26_MergeIdempotent ==
    /\ [](mergeCalls >= 1 => mergeProfiles(merged, newProfiles) = merged)
    /\ [][(mergeCalls >= 1 /\ existing' = merged /\ newProfiles' = newProfiles)
             => merged' = merged]_vars

\* a list holding two records with one profileUrl and different payloads
\* was merged into a collection without that URL, and merged again
C26_Witness ==
    /\ mergeCalls = 2
    /\ existing = merged
    /\ \E i, k \in 1..Len(newProfiles) :
           /\ i < k
           /\ newProfiles[i].profileUrl = newProfiles[k].profileUrl
           /\ newProfiles[i].payload # newProfiles[k].payload
           /\ CountUrl(merged, newProfiles[i].profileUrl) = 2

\* ---------------------------------------------------------------- C27
\* C27: for any query of one or several words, with type 'idol' every
\* result has type 'idol' and with type 'group' every result has type
\* 'group'; there are at most `limit` results, no two with the same item id.
C27_SearchFiltersByType ==
    searchArgs.returned =>
        /\ searchArgs.type # "all" =>
              \A k \in 1..Len(searchResults) :
                  searchResults[k].type = searchArgs.type
        /\ Len(searchResults) <= searchArgs.limit
        /\ \A i, k \in 1..Len(searchResults) :
              searchResults[i].item.id = searchResults[k].item.id => i = k


\* the URLs of the profiles in the data files
PersistedUrls == getAllProfileUrls(LoadedFrom(groupsFile, idolsFile))

\* C28: no session, debug or production, removes a persisted profile:
\* every profile that is in the data files before a step of the session,
\* be it there from the start or written by a checkpoint, is in them after
\* the step.  It does not hold: the final save of a debug session writes a
\* dataset that began empty, and a production session whose checkpoint
\* failed saves a dataset without the profiles of the earlier checkpoints
C28_NoSessionRemovesProfiles ==
    [][PersistedUrls \subseteq PersistedUrls']_vars

\* the same of the saves that write all three files of a debug session
C28_DebugSaveKeepsProfiles ==
    [][(opts.debug /\ sPc' = "done") => PersistedUrls \subseteq PersistedUrls']_vars


\* ---------------------------------------------------------------- C29
\* the requests a step issues: the fetching task's, when it reaches its
\* fetch, and one for every other task whose getToken returns
RequestsIssued ==
    (IF fPc # "request" /\ fPc' = "request" THEN 1 ELSE 0)
        + Cardinality({c \in OtherTasks :
                           gtPc[c] # "returned" /\ gtPc'[c] = "returned"})

\* C29: every network request, first attempt or retry, follows a getToken
\* call of its own that has returned: a step issues at most one request,
\* a step that issues one finds a whole token available and leaves exactly
\* one token less, and in any other step the available tokens grow by no
\* more than the time that passed refills; so the requests of all tasks
\* in an interval number at most the tokens available at its start plus
\* those refilled during it.
C29_EveryRequestTakesAToken ==
    [][/\ RequestsIssued <= 1
       /\ RequestsIssued = 1 =>
              /\ Available >= MsPerToken
              /\ Available' = Available - MsPerToken
       /\ RequestsIssued = 0 =>
              Available' <= Available + Max(sinceRefill' - sinceRefill, 0)
       /\ Available >= 0]_vars

\* the fetching task has issued a retry, the other task its request, and
\* the two have taken the last tokens of the bucket
C29_Witness ==
    /\ fPc = "request"
    /\ fLog.reqs >= 2
    /\ \E c \in OtherTasks : gtPc[c] = "returned"
    /\ tokens < MsPerToken


\* ---------------------------------------------------------------- C30
\* the cache entry of the page the call is about
CachedPage == cache[<<fArgs.type, fArgs.url>>]

\* C30: a listing page is always resolved with forceRefresh = false,
\* whatever the options of the session are; a discovery that finds the
\* page in the cache (cache.get yields it) issues no network request,
\* returns the cached copy and leaves the cache as it is, and the URLs it
\* discovers are the links of the cached copy.
C30_ListingComesFromCache ==
    /\ [](fPc # "idle" => ~fArgs.forceRefresh)
    /\ [][/\ (fPc = "idle" /\ fPc' # "idle" /\ CachedPage' # NoDoc
                            /\ ~fLog'.readErr) =>
                 /\ fPc' = "returned"
                 /\ fLog'.from = "cache"
                 /\ fLog'.reqs = 0
                 /\ fLog'.doc = CachedPage'
                 /\ tokens' = tokens
                 /\ cache' = cache
          /\ (fPc = "returned" /\ fPc' = "idle" /\ fLog.from = "cache") =>
                 /\ sLog'.listing = LinksOn(CachedPage)
                 /\ cache' = cache]_vars

\* the second discovery of a listing page, in a session run with --force,
\* was answered from the cache the first had filled and found the links
\* of the cached copy
C30_Witness ==
    /\ fPc = "idle"
    /\ fCalls = 2
    /\ opts.forceRefresh
    /\ fLog.from = "cache"
    /\ fLog.reqs = 0
    /\ sLog.listing = LinksOn(CachedPage)
    /\ sLog.listing # <<>>

==============================================================================
